---- MODULE Spec2Model ----
(***************************************************************************)
(* FrequencyTable / DiscreteFrequencyTable of                              *)
(* src/DescriptiveStatistics/freqtable/freq.py as a state machine.         *)
(*                                                                         *)
(* A table (the dict self._table) is a sequence of <<item, frequency>>     *)
(* pairs with distinct items: a Python dict keeps insertion order, and the *)
(* code relies on it (sort, list(keys())).  Table objects live in `heap`   *)
(* and are reached through the names in `names`, so that two names bound   *)
(* to one object would see each other's mutations.                         *)
(***************************************************************************)
EXTENDS Integers, Sequences, FiniteSets, TLC

\* ------------------------------------------------------------------ bounds
\* Largest total frequency a table of the main specification may hold.
MaxTotal == 3
\* Longest iterable handed to the constructor, append and get_subset.
MaxData == 2

\* Items a sample may hold (hashable, orderable).
Items == {1, 2}
\* An element that is not hashable, such as the list [4]; hash() raises on it.
UnhashableElems == {0}
Elements == Items \cup UnhashableElems

IsHashable(x) == x \notin UnhashableElems

\* ------------------------------------------------------- sequences, dicts
Min(a, b) == IF a <= b THEN a ELSE b

SeqsUpTo(S, n) == UNION {[1..k -> S] : k \in 0..n}

\* `k in d`
Has(t, k) == \E i \in 1..Len(t) : t[i][1] = k

IndexOf(t, k) == CHOOSE i \in 1..Len(t) : t[i][1] = k

\* d[k]
Get(t, k) == t[IndexOf(t, k)][2]

\* d[k] = v: an existing key keeps its position, a new key goes last.
SetItem(t, k, v) ==
    IF Has(t, k) THEN [t EXCEPT ![IndexOf(t, k)] = <<k, v>>] ELSE Append(t, <<k, v>>)

\* d.pop(k)
Pop(t, k) == SelectSeq(t, LAMBDA p : p[1] # k)

\* list(d.keys())
KeyList(t) == [i \in 1..Len(t) |-> t[i][1]]

KeySet(t) == {t[i][1] : i \in 1..Len(t)}

\* d.get(k) with None read as 0.
Freq(t, k) == IF Has(t, k) THEN Get(t, k) ELSE 0

RECURSIVE SumFreqs(_)
SumFreqs(t) == IF t = <<>> THEN 0 ELSE t[1][2] + SumFreqs(Tail(t))

get_total(t) == SumFreqs(t)

\* Number of occurrences of x in the sequence s.
Count(s, x) == Cardinality({i \in 1..Len(s) : s[i] = x})

\* ------------------------------------------------------------- Counter
\* collections.Counter(data) for a sequence: hashing an unhashable element
\* raises TypeError; otherwise the tally in first-occurrence order.
RECURSIVE Tally(_, _)
Tally(data, acc) ==
    IF data = <<>> THEN acc
    ELSE Tally(Tail(data), SetItem(acc, Head(data), Freq(acc, Head(data)) + 1))

CounterRaises(data) == \E i \in 1..Len(data) : ~IsHashable(data[i])

Counter(data) == Tally(data, <<>>)

\* An argument that may or may not be iterable.
Iterable(elems) == [iterable |-> TRUE, elems |-> elems]
NotIterable == [iterable |-> FALSE, elems |-> <<>>]

\* DiscreteFrequencyTable._calculate_frequencies
_calculate_frequencies(data) ==
    IF ~data.iterable THEN [out |-> "TypeError", table |-> <<>>]
    ELSE IF CounterRaises(data.elems) THEN [out |-> "TypeError", table |-> <<>>]
    ELSE [out |-> "ok", table |-> Counter(data.elems)]

\* ---------------------------------------------------------------- append
RECURSIVE AppendLoop(_, _)
AppendLoop(t, counter) ==
    IF counter = <<>> THEN t
    ELSE LET item == counter[1][1]
             n == counter[1][2]
             t2 == IF Has(t, item) THEN SetItem(t, item, Get(t, item) + n)
                   ELSE IF ~IsHashable(item) THEN t
                   ELSE SetItem(t, item, n)
         IN AppendLoop(t2, Tail(counter))

append(t, data) ==
    IF ~data.iterable THEN [out |-> "TypeError", table |-> t]
    ELSE IF CounterRaises(data.elems) THEN [out |-> "TypeError", table |-> t]
    ELSE [out |-> "ok", table |-> AppendLoop(t, Counter(data.elems))]

\* ----------------------------------------------------------------- merge
\* The argument is [isTable, table]: it may or may not be a FrequencyTable.
\* The loop of merge with `=` for `+=`: an overlapping item is overwritten.
RECURSIVE MergeLoopOverwriting(_, _)
MergeLoopOverwriting(t, other) ==
    IF other = <<>> THEN t
    ELSE MergeLoopOverwriting(SetItem(t, other[1][1], other[1][2]), Tail(other))

RECURSIVE MergeLoop(_, _)
MergeLoop(t, other) ==
    IF other = <<>> THEN t
    ELSE LET item == other[1][1]
             freq == other[1][2]
             t2 == IF ~Has(t, item) THEN SetItem(t, item, freq)
                   ELSE SetItem(t, item, Get(t, item) + freq)
         IN MergeLoop(t2, Tail(other))

merge(t, arg) ==
    IF ~arg.isTable THEN [out |-> "TypeError", table |-> t]
    ELSE [out |-> "ok", table |-> MergeLoop(t, arg.table)]

\* ------------------------------------------------------------------ sort
\* SortType: the enum's members and their values.
SortType == {"BY_ITEM", "BY_FREQ"}
SortTypeValue == [BY_ITEM |-> 0, BY_FREQ |-> 1]

\* sorted(pairs, key=lambda item: item[idx], reverse=rev): a stable sort; with
\* reverse=True equal keys still keep their original relative order.
RECURSIVE InsertSorted(_, _, _, _)
InsertSorted(sorted, p, idx, rev) ==
    IF sorted = <<>> THEN <<p>>
    ELSE LET before == IF rev THEN sorted[1][idx] >= p[idx] ELSE sorted[1][idx] <= p[idx]
         IN IF before THEN <<sorted[1]>> \o InsertSorted(Tail(sorted), p, idx, rev)
            ELSE <<p>> \o sorted

RECURSIVE SortedFrom(_, _, _, _)
SortedFrom(acc, rest, idx, rev) ==
    IF rest = <<>> THEN acc
    ELSE SortedFrom(InsertSorted(acc, Head(rest), idx, rev), Tail(rest), idx, rev)

Sorted(pairs, idx, rev) == SortedFrom(<<>>, pairs, idx, rev)

\* sort that reorders (by frequency) before it looks at `by`.
sort_then_validate(t, by, acs) ==
    IF by \notin SortType
    THEN [out |-> "InvalidSortTypeError", table |-> Sorted(t, 2, ~acs)]
    ELSE [out |-> "ok", table |-> Sorted(t, SortTypeValue[by] + 1, ~acs)]

\* FrequencyTable.sort
sort(t, by, acs) ==
    IF by \notin SortType THEN [out |-> "InvalidSortTypeError", table |-> t]
    ELSE [out |-> "ok", table |-> Sorted(t, SortTypeValue[by] + 1, ~acs)]

\* ---------------------------------------------------------- map_elements
\* A mapping function: fn on the items, raising on those in raisesOn.
\* The loop of map_elements with `=` for `+=`: a key that is already there is
\* overwritten by the frequency that moves onto it.
RECURSIVE MapLoopOverwriting(_, _, _)
MapLoopOverwriting(t, items, func) ==
    IF items = <<>> THEN t
    ELSE LET item == Head(items)
             t2 == IF item \in func.raisesOn THEN t
                   ELSE SetItem(Pop(t, item), func.fn[item], Get(t, item))
         IN MapLoopOverwriting(t2, Tail(items), func)

RECURSIVE MapLoop(_, _, _)
MapLoop(t, items, func) ==
    IF items = <<>> THEN t
    ELSE LET item == Head(items)
             new_item == func.fn[item]
             freq == Get(t, item)
             popped == Pop(t, item)
             t2 == IF item \in func.raisesOn THEN t
                   ELSE IF Has(popped, new_item)
                        THEN SetItem(popped, new_item, Get(popped, new_item) + freq)
                        ELSE SetItem(popped, new_item, freq)
         IN MapLoop(t2, Tail(items), func)

map_elements(t, func) ==
    IF ~func.callable THEN [out |-> "TypeError", table |-> t]
    ELSE [out |-> "ok", table |-> MapLoop(t, KeyList(t), func)]

\* ----------------------------------------------- apply_frequency_operation
\* A frequency function v |-> a * v + b.
CallFreqFunc(func, v) == func.a * v + func.b

\* The first loop with `newfreq < 0` for `newfreq <= 0`: a zero is stored.
RECURSIVE ApplyLoopStrict(_, _, _, _)
ApplyLoopStrict(t, i, func, items_with_neg_freq) ==
    IF i > Len(t) THEN [table |-> t, neg |-> items_with_neg_freq]
    ELSE LET item == t[i][1]
             newfreq == CallFreqFunc(func, t[i][2])
         IN IF newfreq < 0
            THEN ApplyLoopStrict(t, i + 1, func, Append(items_with_neg_freq, item))
            ELSE ApplyLoopStrict(SetItem(t, item, newfreq), i + 1, func, items_with_neg_freq)

\* The first loop: the new table and the items marked for deletion.
RECURSIVE ApplyLoop(_, _, _, _)
ApplyLoop(t, i, func, items_with_neg_freq) ==
    IF i > Len(t) THEN [table |-> t, neg |-> items_with_neg_freq]
    ELSE LET item == t[i][1]
             newfreq == CallFreqFunc(func, t[i][2])
         IN IF newfreq <= 0
            THEN ApplyLoop(t, i + 1, func, Append(items_with_neg_freq, item))
            ELSE ApplyLoop(SetItem(t, item, newfreq), i + 1, func, items_with_neg_freq)

RECURSIVE PopAll(_, _)
PopAll(t, items) == IF items = <<>> THEN t ELSE PopAll(Pop(t, Head(items)), Tail(items))

\* apply_frequency_operation storing every new frequency and deleting nothing.
apply_frequency_operation_keeping(t, func) ==
    IF ~func.callable THEN [out |-> "TypeError", table |-> t]
    ELSE [out |-> "ok",
          table |-> [i \in 1..Len(t) |-> <<t[i][1], CallFreqFunc(func, t[i][2])>>]]

apply_frequency_operation(t, func) ==
    IF ~func.callable THEN [out |-> "TypeError", table |-> t]
    ELSE LET r == ApplyLoop(t, 1, func, <<>>)
         IN [out |-> "ok", table |-> PopAll(r.table, r.neg)]

\* -------------------------------------------------- filters and selections
\* Each starts from the empty table of self.__class__() and fills it.
RECURSIVE FilterFreqLoop(_, _, _, _)
FilterFreqLoop(t, min_frequency, max_frequency, acc) ==
    IF t = <<>> THEN acc
    ELSE LET item == t[1][1]
             freq == t[1][2]
             inrange == min_frequency <= freq /\ freq < max_frequency + 1
         IN FilterFreqLoop(Tail(t), min_frequency, max_frequency,
                           IF inrange THEN SetItem(acc, item, freq) ELSE acc)

filter_by_freq(t, min_frequency, max_frequency) ==
    [out |-> "ok", ret |-> FilterFreqLoop(t, min_frequency, max_frequency, <<>>)]

\* A predicate: holds on the items of `holds`, raises on those of raisesOn.
RECURSIVE FilterClassLoop(_, _, _)
FilterClassLoop(t, predicate, acc) ==
    IF t = <<>> THEN acc
    ELSE LET item == t[1][1]
             freq == t[1][2]
             acc2 == IF item \in predicate.raisesOn THEN acc
                     ELSE IF item \in predicate.holds
                          THEN append(acc, Iterable([i \in 1..freq |-> item])).table
                          ELSE acc
         IN FilterClassLoop(Tail(t), predicate, acc2)

filter_by_class(t, predicate) ==
    IF ~predicate.callable THEN [out |-> "TypeError", ret |-> <<>>]
    ELSE [out |-> "ok", ret |-> FilterClassLoop(t, predicate, <<>>)]

RECURSIVE SubsetLoop(_, _, _)
SubsetLoop(t, elems, acc) ==
    IF elems = <<>> THEN [out |-> "ok", ret |-> acc]
    ELSE LET element == Head(elems)
         IN IF ~IsHashable(element) THEN [out |-> "TypeError", ret |-> <<>>]
            ELSE SubsetLoop(t, Tail(elems),
                            IF Has(t, element) THEN SetItem(acc, element, Get(t, element))
                            ELSE acc)

get_subset(t, subset_elements) ==
    IF ~subset_elements.iterable THEN [out |-> "TypeError", ret |-> <<>>]
    ELSE SubsetLoop(t, subset_elements.elems, <<>>)

\* nlargest sorting without reverse=True: the n smallest.
nlargest_ascending(n, pairs) == SubSeq(Sorted(pairs, 2, FALSE), 1, Min(n, Len(pairs)))

\* heapq.nlargest(n, it, key) == sorted(it, key=key, reverse=True)[:n]
nlargest(n, pairs) == SubSeq(Sorted(pairs, 2, TRUE), 1, Min(n, Len(pairs)))

\* heapq.nsmallest(n, it, key) == sorted(it, key=key)[:n]
nsmallest(n, pairs) == SubSeq(Sorted(pairs, 2, FALSE), 1, Min(n, Len(pairs)))

\* dict built by `for item, freq in pairs: d[item] = freq`
RECURSIVE FromPairs(_, _)
FromPairs(pairs, acc) ==
    IF pairs = <<>> THEN acc
    ELSE FromPairs(Tail(pairs), SetItem(acc, pairs[1][1], pairs[1][2]))

get_top_n_elements(t, n) ==
    IF n <= 0 THEN [out |-> "ValueError", ret |-> <<>>]
    ELSE [out |-> "ok", ret |-> FromPairs(nlargest(n, t), <<>>)]

get_lowest_n_elements(t, n) ==
    IF n <= 0 THEN [out |-> "ValueError", ret |-> <<>>]
    ELSE [out |-> "ok", ret |-> FromPairs(nsmallest(n, t), <<>>)]

\* ------------------------------------------------------------------ floats
\* Python floats are binary floating point, round-half-even, 53 significant
\* bits.  The model keeps the format and its rounding at MantissaBits
\* significant bits; a float is the integer x * FloatScale.  Thirds and
\* sevenths round at 5 bits the way they do at 53 (both are 2 modulo 3 and
\* odd, the periods of their binary expansions).
MantissaBits == 5
\* 2^-MinExponent is the smallest normal float of the model.
MinExponent == 4

FloatScale == 2 ^ (MantissaBits - 1 + MinExponent)

RoundHalfEven(n, d) ==
    LET q == n \div d
        r == n % d
    IN IF 2 * r > d \/ (2 * r = d /\ q % 2 = 1) THEN q + 1 ELSE q

\* The unit in the last place of n/d (in units of 1/FloatScale).
RECURSIVE UlpOf(_, _, _)
UlpOf(n, d, u) ==
    IF n >= 2 * u * (2 ^ (MantissaBits - 1)) * d THEN UlpOf(n, d, 2 * u) ELSE u

\* The float nearest to n/d.
FloatRound(n, d) == LET u == UlpOf(n, d, 1) IN u * RoundHalfEven(n, d * u)

\* a / b on integers (true division)
TrueDiv(a, b) == FloatRound(a * FloatScale, b)

\* x + y on floats
FloatAdd(x, y) == FloatRound(x + y, 1)

\* random.random(): k / 2^53 for 0 <= k < 2^53, here k / 2^MantissaBits.
RandomValues == {k * (FloatScale \div (2 ^ MantissaBits)) : k \in 0..(2 ^ MantissaBits - 1)}

\* bisect.bisect_left(a, x), 0-based: the first index whose entry is >= x.
bisect_left(a, x) == Cardinality({i \in 1..Len(a) : a[i] < x})

\* ----------------------------------------------------- generate_random_data
RECURSIVE Cumulate(_, _)
Cumulate(relative_freqs, commutative_rfreqs) ==
    IF relative_freqs = <<>> THEN commutative_rfreqs
    ELSE Cumulate(Tail(relative_freqs),
                  Append(commutative_rfreqs,
                         FloatAdd(commutative_rfreqs[Len(commutative_rfreqs)],
                                  Head(relative_freqs))))

CumulativeRFreqs(t) ==
    LET relative_freqs == [i \in 1..Len(t) |-> TrueDiv(t[i][2], get_total(t))]
    IN Cumulate(Tail(relative_freqs), <<relative_freqs[1]>>)

RECURSIVE DrawLoop(_, _, _, _)
DrawLoop(items, commutative_rfreqs, draws, freqt) ==
    IF draws = <<>> THEN freqt
    ELSE LET rand == Head(draws)
             element_index == bisect_left(commutative_rfreqs, rand)
             freqt2 == IF element_index < 0 THEN freqt
                       ELSE IF element_index >= Len(items) THEN freqt
                       ELSE append(freqt, Iterable(<<items[element_index + 1]>>)).table
         IN DrawLoop(items, commutative_rfreqs, Tail(draws), freqt2)

\* draws: the values the sample_size calls of random() return.
generate_random_data(t, sample_size, draws) ==
    IF sample_size <= 0 THEN [out |-> "ValueError", ret |-> <<>>]
    ELSE IF Len(t) = 0 THEN [out |-> "ValueError", ret |-> <<>>]
    ELSE [out |-> "ok",
          ret |-> DrawLoop(KeyList(t), CumulativeRFreqs(t), draws, <<>>)]

\* ------------------------------------------------------------------ median
RECURSIVE Expand(_)
Expand(t) ==
    IF t = <<>> THEN <<>>
    ELSE [i \in 1..t[1][2] |-> t[1][1]] \o Expand(Tail(t))

\* The list left as it is, as if items.sort() were missing.
ListUnsorted(s) == s

\* list.sort() on a list of items
ListSort(s) ==
    LET p == Sorted([i \in 1..Len(s) |-> <<s[i]>>], 1, FALSE)
    IN [i \in 1..Len(s) |-> p[i][1]]

\* The returned number as num/den: an item as it is, or a sum halved.
median(t) ==
    IF Len(t) = 0 THEN [out |-> "ValueError", num |-> 0, den |-> 1]
    ELSE LET items == ListSort(Expand(t))
             mid == get_total(t) \div 2
         IN IF get_total(t) % 2 = 1
            THEN [out |-> "ok", num |-> items[mid + 1], den |-> 1]
            ELSE [out |-> "ok", num |-> items[mid + 1] + items[mid], den |-> 2]

\* ------------------------------------------------------------------- state
VARIABLES
    heap,   \* object -> table: the _table dict of each table object
    names,  \* "self", "derived" -> the object the name is bound to, or NoObj
    call,   \* the call that has just returned: [op, on, arg, out, ret], or NoCall
    pre     \* heap as it was when that call started

vars == <<heap, names, call, pre>>

Objs == {"o1", "o2"}
NoObj == "none"
Names == {"self", "derived"}

Live == {n \in Names : names[n] # NoObj}

\* The table a name is bound to, now and when the last call started.
TableOf(n) == heap[names[n]]
PreTableOf(n) == pre[names[n]]

\* The receiver itself handed back in place of a new table.
NewTableShared(nm) == nm["self"]

\* self.__class__(): a new object with its own empty dict (__init__ with
\* data=None); the object `derived` was bound to before is released.
NewTable(nm) == CHOOSE o \in Objs : o # nm["self"]

\* ------------------------------------------------------------------ inputs
DataArgs == {Iterable(s) : s \in SeqsUpTo(Elements, MaxData)} \cup {NotIterable}

RaiseSets == {{}} \cup {{k} : k \in Items}

MapFuncs ==
    {[callable |-> TRUE, fn |-> f, raisesOn |-> e] : f \in [Items -> Items], e \in RaiseSets}
    \cup {[callable |-> FALSE, fn |-> [k \in Items |-> k], raisesOn |-> {}]}

FreqFuncs ==
    {[callable |-> TRUE, a |-> a, b |-> b] : a \in 0..2, b \in -1..1}
    \cup {[callable |-> FALSE, a |-> 1, b |-> 0]}

Predicates ==
    {[callable |-> TRUE, holds |-> h, raisesOn |-> e] : h \in SUBSET Items, e \in RaiseSets}
    \cup {[callable |-> FALSE, holds |-> {}, raisesOn |-> {}]}

\* `by`: the two modes and a value that is no SortType.
SortArgs == SortType \cup {"by_item"}

SelectSizes == -1..4

SampleSizes == -1..1

\* No call has just returned.
NoCall == [op |-> "none", on |-> NoObj, arg |-> "None", out |-> "None", ret |-> "None"]
\* The caller may make its next call: right after the construction, or once it
\* has moved on from the call that returned.
Idle == call = NoCall \/ call.op = "__init__"

\* -------------------------------------------------------------------- Init
\* self = DiscreteFrequencyTable(data) has just returned, for a sample of `samples`.
InitFrom(samples) ==
    \E data \in samples :
        /\ _calculate_frequencies(Iterable(data)).out = "ok"
        /\ heap = [o \in Objs |-> IF o = "o1" THEN _calculate_frequencies(Iterable(data)).table
                                  ELSE <<>>]
        /\ names = [n \in Names |-> IF n = "self" THEN "o1" ELSE NoObj]
        /\ call = [op |-> "__init__", on |-> "self", arg |-> Iterable(data), out |-> "ok",
                   ret |-> "None"]
        /\ pre = [o \in Objs |-> <<>>]

Init == InitFrom(SeqsUpTo(Elements, MaxData))

\* ----------------------------------------------------------------- actions
\* A call that mutates the table `n` is bound to (or raises).
Mutate(n, op, arg, r) ==
    /\ Idle
    /\ get_total(r.table) <= MaxTotal
    /\ heap' = [heap EXCEPT ![names[n]] = r.table]
    /\ names' = names
    /\ call' = [op |-> op, on |-> n, arg |-> arg, out |-> r.out, ret |-> "None"]
    /\ pre' = heap

\* A call on `self` that returns a new table, bound to `derived` (or raises).
Derive(op, arg, r) ==
    /\ Idle
    /\ IF r.out = "ok"
       THEN /\ heap' = [heap EXCEPT ![NewTable(names)] = r.ret]
            /\ names' = [names EXCEPT !["derived"] = NewTable(names)]
       ELSE UNCHANGED <<heap, names>>
    /\ call' = [op |-> op, on |-> "self", arg |-> arg, out |-> r.out,
                ret |-> IF r.out = "ok" THEN NewTable(names) ELSE "None"]
    /\ pre' = heap

AppendCall ==
    \E n \in Live, data \in DataArgs :
        Mutate(n, "append", data, append(TableOf(n), data))

MergeCall ==
    \E n \in Live :
        \/ \E m \in Live :
              LET arg == [isTable |-> TRUE, table |-> TableOf(m), from |-> m]
              IN Mutate(n, "merge", arg, merge(TableOf(n), arg))
        \/ LET arg == [isTable |-> FALSE, table |-> <<>>, from |-> NoObj]
           IN Mutate(n, "merge", arg, merge(TableOf(n), arg))

SortCall ==
    \E n \in Live, by \in SortArgs, acs \in BOOLEAN :
        Mutate(n, "sort", [by |-> by, acs |-> acs], sort(TableOf(n), by, acs))

MapElementsCall ==
    \E n \in Live, func \in MapFuncs :
        Mutate(n, "map_elements", func, map_elements(TableOf(n), func))

ApplyFrequencyOperationCall ==
    \E n \in Live, func \in FreqFuncs :
        Mutate(n, "apply_frequency_operation", func,
               apply_frequency_operation(TableOf(n), func))

FilterByFreqCall ==
    \E lo \in 0..MaxTotal, hi \in 0..MaxTotal :
        Derive("filter_by_freq", [min |-> lo, max |-> hi],
               filter_by_freq(TableOf("self"), lo, hi))

FilterByClassCall ==
    \E predicate \in Predicates :
        Derive("filter_by_class", predicate, filter_by_class(TableOf("self"), predicate))

GetSubsetCall ==
    \E elems \in DataArgs :
        Derive("get_subset", elems, get_subset(TableOf("self"), elems))

GetTopNElementsCall ==
    \E n \in SelectSizes :
        Derive("get_top_n_elements", n, get_top_n_elements(TableOf("self"), n))

GetLowestNElementsCall ==
    \E n \in SelectSizes :
        Derive("get_lowest_n_elements", n, get_lowest_n_elements(TableOf("self"), n))

GenerateRandomData(sizes) ==
    \E sample_size \in sizes :
        \E draws \in [1..(IF sample_size > 0 THEN sample_size ELSE 0) -> RandomValues] :
            Derive("generate_random_data", [sample_size |-> sample_size, draws |-> draws],
                   generate_random_data(TableOf("self"), sample_size, draws))

GenerateRandomDataCall == GenerateRandomData(SampleSizes)

\* A call on `self` that only returns a value.
Query(op, arg, r) ==
    /\ Idle
    /\ call' = [op |-> op, on |-> "self", arg |-> arg, out |-> r.out, ret |-> r]
    /\ pre' = heap
    /\ UNCHANGED <<heap, names>>

MedianCall == Query("median", "None", median(TableOf("self")))

\* The caller has looked at the call that returned and moves on: what is kept
\* of the call is dropped, the tables stay as they are.
Return ==
    /\ call # NoCall
    /\ call' = NoCall
    /\ pre' = heap
    /\ UNCHANGED <<heap, names>>

Next ==
    \/ AppendCall
    \/ MergeCall
    \/ SortCall
    \/ MapElementsCall
    \/ ApplyFrequencyOperationCall
    \/ FilterByFreqCall
    \/ FilterByClassCall
    \/ GetSubsetCall
    \/ GetTopNElementsCall
    \/ GetLowestNElementsCall
    \/ GenerateRandomDataCall
    \/ Return

Spec == Init /\ [][Next]_vars

\* ------------------------------------------- selections and median at large
\* The samples "each item of a table, frequency times": one for every table
\* over `items` with a total of at most maxTotal, in every order of its items.
TablesOver(items, maxTotal) ==
    UNION {{t \in [1..k -> items \X (1..maxTotal)] :
               /\ \A i, j \in 1..k : i < j => t[i][1] # t[j][1]
               /\ SumFreqs(t) <= maxTotal} : k \in 0..Cardinality(items)}

\* Largest sample of the statistics specification.
MaxStatsTotal == 8

StatsSamples == {Expand(t) : t \in TablesOver(1..3, MaxStatsTotal)}

InitStats == InitFrom(StatsSamples)

NextStats ==
    \/ GetTopNElementsCall
    \/ GetLowestNElementsCall
    \/ MedianCall

SpecStats == InitStats /\ [][NextStats]_vars

\* ------------------------------------------------------ resampling at large
\* Largest sample, and largest sample_size, of the resampling specification.
MaxRandomTotal == 7
MaxSampleSize == 1

\* Sorted samples over four items.
RandomSamples ==
    {Expand([i \in 1..4 |-> <<i, f[i]>>]) :
        f \in {g \in [1..4 -> 0..MaxRandomTotal] :
                  g[1] + g[2] + g[3] + g[4] <= MaxRandomTotal}}

InitRandom == InitFrom(RandomSamples)

GenerateRandomDataAtLarge == GenerateRandomData(1..MaxSampleSize)

NextRandom == GenerateRandomDataAtLarge

SpecRandom == InitRandom /\ [][NextRandom]_vars

\* ================================================================== claims
MutatorOps == {"append", "merge", "map_elements", "apply_frequency_operation", "sort"}
DeriveOps == {"filter_by_freq", "filter_by_class", "get_subset", "get_top_n_elements",
              "get_lowest_n_elements", "generate_random_data"}

\* to_dict(): the mapping without its order.
AsDict(t) == [k \in KeySet(t) |-> Get(t, k)]

\* The sum of g[k] over the finite set S.
RECURSIVE SumOver(_, _)
SumOver(S, g) ==
    IF S = {} THEN 0
    ELSE LET k == CHOOSE x \in S : TRUE IN g[k] + SumOver(S \ {k}, g)

C2_MapSumsByImage ==
    (call.op = "map_elements" /\ call.arg.callable /\ call.arg.raisesOn = {}) =>
        LET old == PreTableOf(call.on)
            new == TableOf(call.on)
        IN /\ call.out = "ok"
           /\ \A j \in Items :
                 Freq(new, j) =
                     SumOver({k \in KeySet(old) : call.arg.fn[k] = j}, [k \in Items |-> Freq(old, k)])
           /\ KeySet(new) = {call.arg.fn[k] : k \in KeySet(old)}

\* C3: apply_frequency_operation(f) leaves exactly the items whose f(v) > 0,
\* each with f(v), in their old order; the identity changes nothing and the
\* constant -1 empties the table.
C3_ApplyKeepsPositive ==
    (call.op = "apply_frequency_operation" /\ call.arg.callable) =>
        LET old == PreTableOf(call.on)
            new == TableOf(call.on)
            mapped == [i \in 1..Len(old) |-> <<old[i][1], CallFreqFunc(call.arg, old[i][2])>>]
        IN /\ call.out = "ok"
           /\ new = SelectSeq(mapped, LAMBDA p : p[2] > 0)
           /\ (call.arg.a = 1 /\ call.arg.b = 0) => new = old
           /\ (call.arg.a = 0 /\ call.arg.b = -1) => new = <<>>

\* A function that is not the identity has removed one item and changed another.
C3_Witness ==
    /\ call.op = "apply_frequency_operation" /\ call.out = "ok"
    /\ Len(PreTableOf(call.on)) = 2
    /\ Len(TableOf(call.on)) = 1
    /\ TableOf(call.on)[1] \notin {PreTableOf(call.on)[i] : i \in 1..2}

\* C4: filter_by_freq, filter_by_class, get_subset, get_top_n_elements,
\* get_lowest_n_elements and generate_random_data leave the receiver's mapping
\* as it was and return a table that is another object; a mutation through
\* one name is never seen through the other.
C4_DerivedTablesAreIndependent ==
    /\ (call.op \in DeriveOps /\ call.out = "ok") =>
          /\ TableOf("self") = PreTableOf("self")
          /\ names["derived"] = call.ret
          /\ names["derived"] \in Objs \ {names["self"]}
    /\ call.op \in MutatorOps =>
          \A n \in Live \ {call.on} : TableOf(n) = PreTableOf(n)

\* With a derived table at hand, a mutation has just changed one of the two
\* tables, and neither is empty.
C4_Witness ==
    /\ call.op \in MutatorOps /\ call.out = "ok"
    /\ Live = Names
    /\ TableOf(call.on) # PreTableOf(call.on)
    /\ \A n \in Names : Len(PreTableOf(n)) > 0

\* What the caller passed is refused by the operation's own validation.
ValidationFails ==
    \/ call.op = "sort" /\ call.arg.by \notin SortType
    \/ call.op = "append" /\ ~call.arg.iterable
    \/ call.op = "merge" /\ ~call.arg.isTable
    \/ call.op \in {"map_elements", "apply_frequency_operation"} /\ ~call.arg.callable
    \/ call.op \in {"get_top_n_elements", "get_lowest_n_elements"} /\ call.arg <= 0
    \/ call.op = "generate_random_data"
          /\ (call.arg.sample_size <= 0 \/ Len(PreTableOf("self")) = 0)

ExpectedError ==
    CASE call.op = "sort" -> "InvalidSortTypeError"
      [] call.op \in {"append", "merge", "map_elements", "apply_frequency_operation"} -> "TypeError"
      [] OTHER -> "ValueError"

\* C5: a call refused by validation ends in its error with every table (items,
\* frequencies and order) and every binding as before the call.
C5_ValidationBeforeMutation ==
    ValidationFails =>
        /\ call.out = ExpectedError
        /\ heap = pre
        /\ call.ret = "None"

\* sort has refused a `by` on a table that either sort order would rearrange.
C5_Witness ==
    /\ call.op = "sort" /\ call.arg.by \notin SortType
    /\ call.out = "InvalidSortTypeError"
    /\ \A by \in SortType : sort(PreTableOf(call.on), by, call.arg.acs).table # PreTableOf(call.on)

\* C6: append of an iterable never fails: unhashable elements are skipped and
\* every hashable x gains the number of its occurrences in the iterable.
C6_AppendSkipsUnhashable ==
    (call.op = "append" /\ call.arg.iterable) =>
        /\ call.out = "ok"
        /\ \A x \in Items :
              Freq(TableOf(call.on), x) = Freq(PreTableOf(call.on), x) + Count(call.arg.elems, x)

\* C7: A.merge(B) leaves A with the sum of both frequencies for every item,
\* leaves B as it was, and gives the same to_dict() as B.merge(A) would.
C7_MergeSumsAndCommutes ==
    (call.op = "merge" /\ call.arg.isTable /\ call.arg.from # call.on) =>
        LET A == PreTableOf(call.on)
            B == PreTableOf(call.arg.from)
        IN /\ call.out = "ok"
           /\ \A x \in Items : Freq(TableOf(call.on), x) = Freq(A, x) + Freq(B, x)
           /\ KeySet(TableOf(call.on)) = KeySet(A) \cup KeySet(B)
           /\ TableOf(call.arg.from) = B
           /\ AsDict(TableOf(call.on))
                 = AsDict(merge(B, [isTable |-> TRUE, table |-> A]).table)

\* Two tables sharing one item and differing in another have been merged, and
\* merging the other way round would order the items differently.
C7_Witness ==
    /\ call.op = "merge" /\ call.arg.isTable /\ call.arg.from # call.on
    /\ call.out = "ok"
    /\ KeySet(PreTableOf(call.on)) \cap KeySet(PreTableOf(call.arg.from)) # {}
    /\ KeySet(PreTableOf(call.on)) # KeySet(PreTableOf(call.arg.from))
    /\ TableOf(call.on)
          # merge(PreTableOf(call.arg.from), [isTable |-> TRUE, table |-> PreTableOf(call.on)]).table

\* C8: for n > 0 get_top_n_elements(n) returns min(n, len) entries of the
\* receiver, each with its frequency there, every one at least as frequent as
\* every entry left out; get_lowest_n_elements(n) likewise with "at most";
\* top-1 of {1:1, 2:5, 3:2} is {2:5}.
C8_TopAndLowestSelectByFrequency ==
    (call.op \in {"get_top_n_elements", "get_lowest_n_elements"} /\ call.arg > 0) =>
        LET t == PreTableOf("self")
            r == heap[call.ret]
        IN /\ call.out = "ok"
           /\ Len(r) = Min(call.arg, Len(t))
           /\ Cardinality(KeySet(r)) = Len(r)
           /\ \A i \in 1..Len(r) : Has(t, r[i][1]) /\ Get(t, r[i][1]) = r[i][2]
           /\ \A x \in KeySet(r), y \in KeySet(t) \ KeySet(r) :
                 IF call.op = "get_top_n_elements" THEN Get(t, x) >= Get(t, y)
                 ELSE Get(t, x) <= Get(t, y)
           /\ (call.op = "get_top_n_elements" /\ call.arg = 1
                  /\ AsDict(t) = AsDict(<<<<1, 1>>, <<2, 5>>, <<3, 2>>>>))
                 => r = <<<<2, 5>>>>

\* Top-1 of {1:1, 2:5, 3:2} has returned {2:5}.
C8_Witness ==
    /\ call.op = "get_top_n_elements" /\ call.arg = 1 /\ call.out = "ok"
    /\ PreTableOf("self") = <<<<1, 1>>, <<2, 5>>, <<3, 2>>>>
    /\ heap[call.ret] = <<<<2, 5>>>>

\* The total frequency of the items of t that are <= x.
CumUpTo(t, x) == SumOver({k \in KeySet(t) : k <= x}, [k \in KeySet(t) |-> Get(t, k)])

\* The i-th element (from 1) of the sorted weighted sequence of t.
NthOfSorted(t, i) ==
    CHOOSE x \in KeySet(t) : CumUpTo(t, x) >= i /\ CumUpTo(t, x) - Get(t, x) < i

\* C9: on a non-empty table of total T, median() is s[floor(T/2)] for odd T
\* and (s[T/2] + s[T/2 - 1]) / 2 for even T, s being the sorted weighted
\* sequence (indices from 0); the table of [1,2,2,3,3,3] has median 2.5.
C9_MedianOfWeightedSequence ==
    (call.op = "median" /\ Len(TableOf("self")) > 0) =>
        LET t == TableOf("self")
            T == get_total(t)
            h == T \div 2
        IN /\ call.out = "ok"
           /\ call.ret.den > 0
           /\ IF T % 2 = 1
              THEN call.ret.num = NthOfSorted(t, h + 1) * call.ret.den
              ELSE 2 * call.ret.num = (NthOfSorted(t, h + 1) + NthOfSorted(t, h)) * call.ret.den
           /\ AsDict(t) = AsDict(<<<<1, 1>>, <<2, 2>>, <<3, 3>>>>)
                 => 2 * call.ret.num = 5 * call.ret.den

\* median() has returned 2.5 on a table of {1:1, 2:2, 3:3} whose items are not
\* in ascending order.
C9_Witness ==
    /\ call.op = "median" /\ call.out = "ok"
    /\ AsDict(TableOf("self")) = AsDict(<<<<1, 1>>, <<2, 2>>, <<3, 3>>>>)
    /\ TableOf("self")[1][1] = 3
    /\ call.ret.num = 5 /\ call.ret.den = 2

\* C10: for n > 0 on a non-empty table, generate_random_data(n) returns a
\* table of total exactly n whose items all occur in the receiver, whatever
\* the draws: no draw is dropped.
C10_EveryDrawIsKept ==
    (call.op = "generate_random_data" /\ call.arg.sample_size > 0
        /\ Len(PreTableOf("self")) > 0) =>
        /\ call.out = "ok"
        /\ get_total(heap[call.ret]) = call.arg.sample_size
        /\ KeySet(heap[call.ret]) \subseteq KeySet(PreTableOf("self"))

====
